---- MODULE Spec2Model ----
(***************************************************************************)
(* Choices-MCP: the component-generation MCP servers.                      *)
(*                                                                         *)
(* Two server designs exist in the repository:                             *)
(*   - the polling servers (src/src/index.ts and its near-identical twin   *)
(*     in src/unnamed/part_003), whose waiter polls the session status;    *)
(*   - the subscription server (src/src/server.ts), whose waiter listens   *)
(*     on a per-session broadcast channel and arms a one-hour timer.       *)
(* Spec is the polling server, SpecPush the subscription server.           *)
(***************************************************************************)
EXTENDS Integers, Sequences, FiniteSets, TLC

(***************************************************************************)
(* Program constants                                                       *)
(***************************************************************************)
\* const maxAttempts = 60
maxAttempts == 60
\* const pollInterval = 5000 (milliseconds)
pollInterval == 5000
\* catch: if (attempt > 5) throw
graceAttempts == 5

\* the enumerations of the tool's inputSchema / GenerateComponentSchema
FrameworkEnum == {"react", "vue", "angular"}
StylingEnum == {"tailwind", "css", "styled-components"}

(***************************************************************************)
(* Inputs                                                                  *)
(***************************************************************************)
\* a field the caller left out (undefined)
Absent == "<absent>"

\* what a caller may put in the arguments of a tool call
ArgDescriptions == {Absent, "", "pricing cards"}
ArgFrameworks == {Absent, "react", "vue", "svelte"}
ArgStylings == {Absent, "css", "sass"}
ToolNames == {"generate_component", "select_component"}

\* the tools the ListToolsRequestSchema handler lists
ToolList == {"generate_component"}

\* the two polling servers
Variants == {"index", "part003"}

\* one wait per invocation slot
PollSessions == {"p1"}

\* the variations the status endpoint reports: one with code, one whose code
\* is still empty, one whose index the service numbered out of the usual range
Variations ==
  << [id |-> "v0", variationIndex |-> 0, code |-> "code0"],
     [id |-> "v1", variationIndex |-> 1, code |-> ""],
     [id |-> "v7", variationIndex |-> 7, code |-> "code7"] >>

\* session.selectedVariationId: undefined, a listed variation, or an unknown id
SelectedIds == {Absent, "v0", "v1", "v7", "vX"}
SessionStatuses == {"pending", "generating", "completed", "selected", "expired"}

\* no response held (the loop's sessionStatus is out of scope)
NoResp == [kind |-> "none", http |-> 0, status |-> Absent, sel |-> Absent]

\* the answers to one status fetch: the fetch throws (http = 0), the service
\* answers with a non-2xx code, or it answers 200 with a session status
PollResponses ==
  { [kind |-> "fail", http |-> h, status |-> Absent, sel |-> Absent] : h \in {0, 401, 500} }
  \cup
  { [kind |-> "ok", http |-> 200, status |-> st, sel |-> id] :
      st \in SessionStatuses, id \in SelectedIds }

\* the answers to the generation submission
SubmitResponses == {"created", "neterr", "http401", "http500"}

NoResult == [code |-> "", variationIndex |-> -1]
NoMsg == [description |-> Absent, framework |-> Absent, styling |-> Absent, auth |-> FALSE]
NoArgs == [description |-> Absent, framework |-> Absent, styling |-> Absent]
NoError == [kind |-> "none", sessionId |-> Absent, bound |-> Absent]

(***************************************************************************)
(* Process environment, read by both servers                               *)
(***************************************************************************)
VARIABLE
  apiKeySet     \* process.env.ADORABLE_API_KEY is set

(***************************************************************************)
(* State of the polling server                                             *)
(***************************************************************************)
VARIABLES
  variant,      \* which polling server runs
  pc,           \* position of the tool-call handler of each invocation
  msg,          \* the generation submission in flight
  attempt,      \* the loop counter of the waiter
  elapsed,      \* milliseconds slept by the waiter
  fetches,      \* status fetches issued
  lastResp,     \* the answer to the last status fetch (sessionStatus, or the caught error)
  errs,         \* failed status fetches so far
  consecErrs,   \* failed status fetches in a row, up to the last fetch
  sawTerminal,  \* some status response reported a terminal session
  result,       \* the selection the waiter returned
  outcome,      \* how the wait ended
  reply,        \* what the protocol layer got back
  browser,      \* the launch of the gallery in the browser
  args,         \* the arguments of the tool call being served
  submissions,  \* generation submissions sent to the remote service
  thrown,       \* the Error that ended the handler
  replyUrl      \* the returned content contains the gallery URL

pollVars == << variant, pc, msg, attempt, elapsed, fetches, lastResp, errs,
               consecErrs, sawTerminal, result, outcome, reply, browser,
               args, submissions, thrown, replyUrl >>

(***************************************************************************)
(* State of the subscription server                                        *)
(***************************************************************************)
VARIABLES
  ppc,           \* position of the tool-call handler of each invocation
  pcall,         \* request.params of the call being authenticated
  authResult,    \* what validateApiKey returned for the call
  validations,   \* calls of validateApiKey made for the call
  perror,        \* the error the handler threw to the protocol layer
  lastAnswer,    \* the answer to the last request of createSession
  preq,          \* the request to the remote service in flight
  settled,       \* the waiter's settled flag
  promise,       \* state of the promise waitForSupabaseSelection returned
  selection,     \* the payload the promise was resolved with
  resolveCalls,  \* calls of resolve()
  rejectCalls,   \* calls of reject()
  unsubCalls,    \* calls of channel.unsubscribe()
  timer,         \* the setTimeout of the waiter
  chan,          \* the per-session channel
  events,        \* broadcasts delivered to the channel's handler
  pbrowser,      \* the launch of the gallery in the browser
  preply,        \* what the protocol layer got back
  closed,        \* server.close() has run
  exiting,       \* a SIGINT/SIGTERM handler is running
  exited         \* process.exit(0) has run

pushVars == << apiKeySet, authResult, validations, perror, lastAnswer, ppc, pcall, preq, settled, promise, selection,
               resolveCalls, rejectCalls, unsubCalls, timer, chan, events,
               pbrowser, preply, closed, exiting, exited >>

(***************************************************************************)
(* State of the variation generator (freestyle-orchestrator.ts)            *)
(***************************************************************************)
VARIABLES
  gpc,             \* position of generateVariations
  vpc,             \* position of each generateSingleVariation
  sandboxIndex,    \* the variationIndex each one was started with
  sandboxResultId, \* each one's sandboxResultId is set
  genResult,       \* the result of mockFreestyleGeneration, while in scope
  lastUpdate,      \* the body of the last updateSandboxResult request sent
  stored,          \* the body of the last update the service acknowledged
  log              \* the requests each variation has sent, in order

genVars == << gpc, vpc, sandboxIndex, sandboxResultId, genResult, lastUpdate, stored, log >>

(***************************************************************************)
(* Pure helpers of the polling waiter                                      *)
(***************************************************************************)
\* Array.prototype.find: the first element with the id, 0 when there is none
RECURSIVE FindFrom(_, _, _)
FindFrom(vs, id, i) ==
  IF i > Len(vs) THEN 0
  ELSE IF vs[i].id = id THEN i
  ELSE FindFrom(vs, id, i + 1)

Find(vs, id) == FindFrom(vs, id, 1)

\* mutation of SelectionReady: the status is compared with the wrong literal
SelectionReadyWrongStatus(resp) ==
  /\ resp.kind = "ok"
  /\ resp.status = "selected"
  /\ resp.sel # Absent
  /\ Find(Variations, resp.sel) # 0
  /\ Variations[Find(Variations, resp.sel)].code # ""

\* if (status === "completed" && selectedVariationId) { find; if (selected && selected.code) return }
SelectionReady(resp) ==
  /\ resp.kind = "ok"
  /\ resp.status = "completed"
  /\ resp.sel # Absent
  /\ Find(Variations, resp.sel) # 0
  /\ Variations[Find(Variations, resp.sel)].code # ""

\* mutation of SelectionOf: the index returned is the position in the array
SelectionOfPosition(resp) ==
  [code |-> Variations[Find(Variations, resp.sel)].code,
   variationIndex |-> Find(Variations, resp.sel) - 1]

\* return { code: selected.code, variationIndex: selected.variationIndex }
SelectionOf(resp) ==
  [code |-> Variations[Find(Variations, resp.sel)].code,
   variationIndex |-> Variations[Find(Variations, resp.sel)].variationIndex]

\* mutation of PollErrorFatal: the comparison is off by one
PollErrorFatalOffByOne(a) == a >= graceAttempts

\* catch: if (attempt > 5) throw new Error("Failed to poll session status")
PollErrorFatal(a) == a > graceAttempts

\* mutation of Defaulted: the default is not applied to an omitted field
DefaultedNever(v, d) == v

\* const { description, framework = "react", styling = "tailwind" } = args
Defaulted(v, d) == IF v = Absent THEN d ELSE v

\* if (!description) throw new Error("Description is required")
DescriptionMissing(d) == d = Absent \/ d = ""

\* new Error(...): what the message of each error of the polling server
\* carries. "Timeout: No component was selected within 5 minutes. Please try
\* again." names the bound and no session; "Failed to poll session status:
\* ${error}" and the others name neither
ErrorThrown(how) ==
  CASE how = "Selected" -> NoError
    [] how = "Timeout" -> [kind |-> "Timeout", sessionId |-> Absent, bound |-> "5 minutes"]
    [] OTHER -> [kind |-> how, sessionId |-> Absent, bound |-> Absent]

\* the text returned for a selection ("Component Selected Successfully! ...")
\* and for an error ("Error: ${errorMessage}") never includes the gallery URL
ContentHasUrl(rep) == FALSE

\* the session is terminal: completed or expired
TerminalStatus(st) == st \in {"completed", "expired"}

(***************************************************************************)
(* Polling server: initial state                                           *)
(***************************************************************************)
PollInit ==
  /\ variant \in Variants
  /\ pc = [s \in PollSessions |-> "idle"]
  /\ msg = [s \in PollSessions |-> NoMsg]
  /\ attempt = [s \in PollSessions |-> 0]
  /\ elapsed = [s \in PollSessions |-> 0]
  /\ fetches = [s \in PollSessions |-> 0]
  /\ lastResp = [s \in PollSessions |-> NoResp]
  /\ errs = [s \in PollSessions |-> 0]
  /\ consecErrs = [s \in PollSessions |-> 0]
  /\ sawTerminal = [s \in PollSessions |-> FALSE]
  /\ result = [s \in PollSessions |-> NoResult]
  /\ outcome = [s \in PollSessions |-> "none"]
  /\ reply = [s \in PollSessions |-> "none"]
  /\ browser = [s \in PollSessions |-> "notTried"]
  /\ args = [s \in PollSessions |-> NoArgs]
  /\ submissions = [s \in PollSessions |-> 0]
  /\ thrown = [s \in PollSessions |-> NoError]
  /\ replyUrl = [s \in PollSessions |-> FALSE]

(***************************************************************************)
(* Polling server: the tool-call handler                                   *)
(***************************************************************************)
\* the handler ends: the catch of the CallToolRequestSchema handler turns a
\* thrown error into an error text; a result is formatted into the payload
Finish(s, how, rep) ==
  /\ pc' = [pc EXCEPT ![s] = "done"]
  /\ outcome' = [outcome EXCEPT ![s] = how]
  /\ reply' = [reply EXCEPT ![s] = rep]
  /\ thrown' = [thrown EXCEPT ![s] = ErrorThrown(how)]
  /\ replyUrl' = [replyUrl EXCEPT ![s] = ContentHasUrl(rep)]

\* a tool call arrives (the process exits at startup when ADORABLE_API_KEY is
\* not set): unknown tool, missing description, or the submission is sent
CallTool(s, name, d, fw, st) ==
  /\ apiKeySet
  /\ pc[s] = "idle"
  /\ IF name # "generate_component"
       THEN /\ Finish(s, "UnknownTool", IF variant = "index" THEN "errorText" ELSE "exception")
            /\ UNCHANGED << msg, args, submissions >>
       ELSE IF DescriptionMissing(d)
         THEN /\ Finish(s, "DescriptionRequired", "errorText")
              /\ UNCHANGED << msg, args, submissions >>
         ELSE /\ pc' = [pc EXCEPT ![s] = "submitting"]
              /\ args' = [args EXCEPT ![s] = [description |-> d, framework |-> fw, styling |-> st]]
              /\ submissions' = [submissions EXCEPT ![s] = @ + 1]
              /\ msg' = [msg EXCEPT ![s] =
                           [description |-> d,
                            framework |-> Defaulted(fw, "react"),
                            styling |-> Defaulted(st, "tailwind"),
                            auth |-> TRUE]]
              /\ UNCHANGED << outcome, reply, thrown, replyUrl >>
  /\ UNCHANGED << variant, attempt, elapsed, fetches, lastResp, errs, consecErrs,
                  sawTerminal, result, browser >>
  /\ UNCHANGED << pushVars, genVars >>

\* mutation of SubmitResponse: a failed submission is sent again
SubmitResponseRetry(s, r) ==
  /\ pc[s] = "submitting"
  /\ IF r = "created"
       THEN /\ pc' = [pc EXCEPT ![s] = IF variant = "index" THEN "preparing" ELSE "polling"]
            /\ msg' = [msg EXCEPT ![s] = NoMsg]
            /\ args' = [args EXCEPT ![s] = NoArgs]
            /\ browser' = [browser EXCEPT ![s] = "launching"]
            /\ UNCHANGED submissions
       ELSE /\ submissions' = [submissions EXCEPT ![s] = @ + 1]
            /\ UNCHANGED << pc, msg, args, browser >>
  /\ UNCHANGED << variant, attempt, elapsed, fetches, lastResp, errs, consecErrs,
                  sawTerminal, result, outcome, reply, thrown, replyUrl >>
  /\ UNCHANGED << pushVars, genVars >>

\* the answer to the submission: an error is thrown to the handler's catch,
\* a created session starts the browser launch and the wait
SubmitResponse(s, r) ==
  /\ pc[s] = "submitting"
  /\ msg' = [msg EXCEPT ![s] = NoMsg]
  /\ args' = [args EXCEPT ![s] = NoArgs]
  /\ IF r = "created"
       THEN /\ pc' = [pc EXCEPT ![s] = IF variant = "index" THEN "preparing" ELSE "polling"]
            /\ browser' = [browser EXCEPT ![s] = "launching"]
            /\ UNCHANGED << outcome, reply, thrown, replyUrl >>
       ELSE /\ Finish(s, "SubmitFailed", "errorText")
            /\ UNCHANGED browser
  /\ UNCHANGED << variant, attempt, elapsed, fetches, lastResp, errs, consecErrs,
                  sawTerminal, result, submissions >>
  /\ UNCHANGED << pushVars, genVars >>

\* open(galleryUrl) settles: a failure is logged, nothing else
BrowserResult(s, ok) ==
  /\ browser[s] = "launching"
  /\ browser' = [browser EXCEPT ![s] = IF ok THEN "opened" ELSE "failed"]
  /\ UNCHANGED << variant, pc, msg, attempt, elapsed, fetches, lastResp, errs,
                  consecErrs, sawTerminal, result, outcome, reply,
                  args, submissions, thrown, replyUrl >>
  /\ UNCHANGED << pushVars, genVars >>

\* index.ts: setTimeout(resolve, 2000) before the loop
StartDelayDone(s) ==
  /\ pc[s] = "preparing"
  /\ pc' = [pc EXCEPT ![s] = "polling"]
  /\ UNCHANGED << variant, msg, attempt, elapsed, fetches, lastResp, errs,
                  consecErrs, sawTerminal, result, outcome, reply, browser,
                  args, submissions, thrown, replyUrl >>
  /\ UNCHANGED << pushVars, genVars >>

(***************************************************************************)
(* Polling server: the waiter                                              *)
(***************************************************************************)
\* attempt++ and the loop test: past the ceiling the waiter throws Timeout
NextAttempt(s) ==
  /\ attempt' = [attempt EXCEPT ![s] = @ + 1]
  /\ IF attempt[s] + 1 < maxAttempts
       THEN /\ pc' = [pc EXCEPT ![s] = "polling"]
            /\ UNCHANGED << outcome, reply, thrown, replyUrl >>
       ELSE Finish(s, "Timeout", "errorText")

\* mutation of Poll: a tolerated error repeats the fetch without consuming
\* an attempt
PollRetrySameAttempt(s, r) ==
  /\ pc[s] = "polling"
  /\ fetches' = [fetches EXCEPT ![s] = @ + 1]
  /\ IF r.kind = "fail"
       THEN /\ errs' = [errs EXCEPT ![s] = @ + 1]
            /\ consecErrs' = [consecErrs EXCEPT ![s] = @ + 1]
            /\ lastResp' = [lastResp EXCEPT ![s] = r]
            /\ UNCHANGED << sawTerminal, result, attempt >>
            /\ IF PollErrorFatal(attempt[s])
                 THEN Finish(s, "PollFailed", "errorText")
                 ELSE UNCHANGED << pc, outcome, reply, thrown, replyUrl >>
       ELSE /\ consecErrs' = [consecErrs EXCEPT ![s] = 0]
            /\ sawTerminal' = [sawTerminal EXCEPT ![s] = @ \/ TerminalStatus(r.status)]
            /\ lastResp' = [lastResp EXCEPT ![s] = r]
            /\ UNCHANGED << errs, attempt >>
            /\ IF SelectionReady(r)
                 THEN /\ result' = [result EXCEPT ![s] = SelectionOf(r)]
                      /\ Finish(s, "Selected", "payload")
                 ELSE /\ pc' = [pc EXCEPT ![s] = "sleeping"]
                      /\ UNCHANGED << result, outcome, reply, thrown, replyUrl >>
  /\ UNCHANGED << variant, msg, elapsed, browser, args, submissions >>
  /\ UNCHANGED << pushVars, genVars >>

\* one status fetch and what the loop body does with its answer
Poll(s, r) ==
  /\ pc[s] = "polling"
  /\ fetches' = [fetches EXCEPT ![s] = @ + 1]
  /\ IF r.kind = "fail"
       THEN /\ errs' = [errs EXCEPT ![s] = @ + 1]
            /\ consecErrs' = [consecErrs EXCEPT ![s] = @ + 1]
            /\ lastResp' = [lastResp EXCEPT ![s] = r]
            /\ UNCHANGED << sawTerminal, result >>
            /\ IF PollErrorFatal(attempt[s])
                 THEN /\ Finish(s, "PollFailed", "errorText")
                      /\ UNCHANGED attempt
                 ELSE NextAttempt(s)
       ELSE /\ consecErrs' = [consecErrs EXCEPT ![s] = 0]
            /\ sawTerminal' = [sawTerminal EXCEPT ![s] = @ \/ TerminalStatus(r.status)]
            /\ lastResp' = [lastResp EXCEPT ![s] = r]
            /\ UNCHANGED << errs, attempt >>
            /\ IF SelectionReady(r)
                 THEN /\ result' = [result EXCEPT ![s] = SelectionOf(r)]
                      /\ Finish(s, "Selected", "payload")
                 ELSE /\ pc' = [pc EXCEPT ![s] = "sleeping"]
                      /\ UNCHANGED << result, outcome, reply, thrown, replyUrl >>
  /\ UNCHANGED << variant, msg, elapsed, browser, args, submissions >>
  /\ UNCHANGED << pushVars, genVars >>

\* await new Promise(resolve => setTimeout(resolve, pollInterval))
Sleep(s) ==
  /\ pc[s] = "sleeping"
  /\ elapsed' = [elapsed EXCEPT ![s] = @ + pollInterval]
  /\ lastResp' = [lastResp EXCEPT ![s] = NoResp]
  /\ NextAttempt(s)
  /\ UNCHANGED << variant, msg, fetches, errs, consecErrs, sawTerminal, result, browser,
                  args, submissions >>
  /\ UNCHANGED << pushVars, genVars >>

PollNext ==
  \E s \in PollSessions :
    \/ \E name \in ToolNames, d \in ArgDescriptions, fw \in ArgFrameworks, st \in ArgStylings :
         CallTool(s, name, d, fw, st)
    \/ \E r \in SubmitResponses : SubmitResponse(s, r)
    \/ \E ok \in BOOLEAN : BrowserResult(s, ok)
    \/ StartDelayDone(s)
    \/ \E r \in PollResponses : Poll(s, r)
    \/ Sleep(s)

(***************************************************************************)
(* Subscription server (src/src/server.ts)                                 *)
(***************************************************************************)
\* most 'component_selected' broadcasts delivered to one channel
MaxEvents == 2

PushSessions == {"s1", "s2"}

\* payloads of the 'component_selected' broadcast
Payloads == {"selA", "selB"}
NoPayload == "<none>"

\* answers of the remote service to the key validation, the submission and
\* the session fetch
ValidateResponses == {"valid", "invalid", "neterr"}
CreateResponses == {"201", "200", "500", "neterr"}
GetSessionResponses == {"200", "204", "404", "500"}

NoCall == [name |-> Absent, description |-> Absent, framework |-> Absent, styling |-> Absent]
\* no answer to a request of createSession received yet
NoAnswer == [req |-> "none", status |-> "none"]

NoReq == [kind |-> "none", framework |-> Absent, styling |-> Absent, auth |-> FALSE]

\* request.params once the arguments are consumed: the tool name stays
NameOnly(name) == [NoCall EXCEPT !.name = name]

vars == << pollVars, pushVars, genVars >>

\* GenerateComponentSchema.parse(args) accepts the arguments
SchemaAccepts(c) ==
  /\ c.description # Absent
  /\ c.framework \in FrameworkEnum \cup {Absent}
  /\ c.styling \in StylingEnum \cup {Absent}

\* the ZodError of a rejected parse: its issues name the missing description
\* or an enum value that is not listed
SchemaError(c) ==
  IF c.description = Absent THEN "ZodError: description required"
                            ELSE "ZodError: invalid enum value"

\* .optional().default(...), then request.framework || 'react' in createSession
SchemaParsed(c) ==
  [kind |-> "create",
   framework |-> Defaulted(Defaulted(c.framework, "react"), "react"),
   styling |-> Defaulted(Defaulted(c.styling, "tailwind"), "tailwind"),
   auth |-> TRUE]

PushInit ==
  /\ apiKeySet \in BOOLEAN
  /\ ppc = [s \in PushSessions |-> "idle"]
  /\ pcall = [s \in PushSessions |-> NoCall]
  /\ preq = [s \in PushSessions |-> NoReq]
  /\ settled = [s \in PushSessions |-> FALSE]
  /\ promise = [s \in PushSessions |-> "none"]
  /\ selection = [s \in PushSessions |-> NoPayload]
  /\ resolveCalls = [s \in PushSessions |-> 0]
  /\ rejectCalls = [s \in PushSessions |-> 0]
  /\ unsubCalls = [s \in PushSessions |-> 0]
  /\ timer = [s \in PushSessions |-> "none"]
  /\ chan = [s \in PushSessions |-> "none"]
  /\ events = [s \in PushSessions |-> 0]
  /\ pbrowser = [s \in PushSessions |-> "notTried"]
  /\ preply = [s \in PushSessions |-> "none"]
  /\ perror = [s \in PushSessions |-> "none"]
  /\ authResult = [s \in PushSessions |-> "none"]
  /\ lastAnswer = [s \in PushSessions |-> NoAnswer]
  /\ validations = [s \in PushSessions |-> 0]
  /\ closed = FALSE
  /\ exiting = FALSE
  /\ exited = FALSE

\* the handler ends: a returned content, or an error thrown to the protocol layer
PushFinish(s, rep, err) ==
  /\ ppc' = [ppc EXCEPT ![s] = "done"]
  /\ preply' = [preply EXCEPT ![s] = rep]
  /\ perror' = [perror EXCEPT ![s] = err]

\* mutation of PushCallTool: the handler goes on to the remote calls without
\* testing that the key is set
PushCallToolNoKeyCheck(s, name, d, fw, st) ==
  /\ ~closed /\ ~exited
  /\ ppc[s] = "idle"
  /\ ppc' = [ppc EXCEPT ![s] = "validating"]
  /\ pcall' = [pcall EXCEPT ![s] =
                 [name |-> name, description |-> d, framework |-> fw, styling |-> st]]
  /\ preq' = [preq EXCEPT ![s] =
                [kind |-> "validate", framework |-> Absent, styling |-> Absent, auth |-> TRUE]]
  /\ validations' = [validations EXCEPT ![s] = @ + 1]
  /\ UNCHANGED << pollVars, genVars, apiKeySet, lastAnswer, authResult, settled, promise, selection,
                  resolveCalls, rejectCalls, unsubCalls, timer, chan, events,
                  pbrowser, preply, perror, closed, exiting, exited >>

\* a tool call arrives: extractApiKey, then the key validation is sent
PushCallTool(s, name, d, fw, st) ==
  /\ ~closed /\ ~exited
  /\ ppc[s] = "idle"
  /\ IF ~apiKeySet
       THEN /\ PushFinish(s, "mcpError", "InvalidRequest")
            /\ pcall' = [pcall EXCEPT ![s] = NameOnly(name)]
            /\ UNCHANGED << preq, validations >>
       ELSE /\ ppc' = [ppc EXCEPT ![s] = "validating"]
            /\ pcall' = [pcall EXCEPT ![s] =
                           [name |-> name, description |-> d, framework |-> fw, styling |-> st]]
            /\ preq' = [preq EXCEPT ![s] =
                          [kind |-> "validate", framework |-> Absent, styling |-> Absent, auth |-> TRUE]]
            /\ validations' = [validations EXCEPT ![s] = @ + 1]
            /\ UNCHANGED << preply, perror >>
  /\ UNCHANGED << pollVars, genVars, apiKeySet, lastAnswer, authResult, settled, promise, selection,
                  resolveCalls, rejectCalls, unsubCalls, timer, chan, events,
                  pbrowser, closed, exiting, exited >>

\* mutation of ValidateResponse: the result of the validation is not tested
ValidateResponseUntested(s, v) ==
  /\ ~exited
  /\ ppc[s] = "validating"
  /\ authResult' = [authResult EXCEPT ![s] = IF v = "valid" THEN "valid" ELSE "invalid"]
  /\ pcall' = [pcall EXCEPT ![s] = NameOnly(pcall[s].name)]
  /\ IF pcall[s].name # "generate_component"
       THEN /\ PushFinish(s, "mcpError", "MethodNotFound")
            /\ preq' = [preq EXCEPT ![s] = NoReq]
       ELSE IF ~SchemaAccepts(pcall[s])
         THEN /\ PushFinish(s, "exception", SchemaError(pcall[s]))
              /\ preq' = [preq EXCEPT ![s] = NoReq]
         ELSE /\ ppc' = [ppc EXCEPT ![s] = "creating"]
              /\ preq' = [preq EXCEPT ![s] = SchemaParsed(pcall[s])]
              /\ UNCHANGED << preply, perror >>
  /\ UNCHANGED << pollVars, genVars, apiKeySet, lastAnswer, validations, settled, promise, selection,
                  resolveCalls, rejectCalls, unsubCalls, timer, chan, events,
                  pbrowser, closed, exiting, exited >>

\* mutation of ValidateResponse: the tool name is not tested
ValidateResponseAnyTool(s, v) ==
  /\ ~exited
  /\ ppc[s] = "validating"
  /\ authResult' = [authResult EXCEPT ![s] = IF v = "valid" THEN "valid" ELSE "invalid"]
  /\ pcall' = [pcall EXCEPT ![s] = NameOnly(pcall[s].name)]
  /\ IF v # "valid"
       THEN /\ PushFinish(s, "mcpError", "InvalidRequest")
            /\ preq' = [preq EXCEPT ![s] = NoReq]
       ELSE IF ~SchemaAccepts(pcall[s])
         THEN /\ PushFinish(s, "exception", SchemaError(pcall[s]))
              /\ preq' = [preq EXCEPT ![s] = NoReq]
         ELSE /\ ppc' = [ppc EXCEPT ![s] = "creating"]
              /\ preq' = [preq EXCEPT ![s] = SchemaParsed(pcall[s])]
              /\ UNCHANGED << preply, perror >>
  /\ UNCHANGED << pollVars, genVars, apiKeySet, lastAnswer, validations, settled, promise, selection,
                  resolveCalls, rejectCalls, unsubCalls, timer, chan, events,
                  pbrowser, closed, exiting, exited >>

\* mutation of ValidateResponse: the arguments are not parsed by the schema
ValidateResponseNoParse(s, v) ==
  /\ ~exited
  /\ ppc[s] = "validating"
  /\ authResult' = [authResult EXCEPT ![s] = IF v = "valid" THEN "valid" ELSE "invalid"]
  /\ pcall' = [pcall EXCEPT ![s] = NameOnly(pcall[s].name)]
  /\ IF v # "valid"
       THEN /\ PushFinish(s, "mcpError", "InvalidRequest")
            /\ preq' = [preq EXCEPT ![s] = NoReq]
       ELSE IF pcall[s].name # "generate_component"
         THEN /\ PushFinish(s, "mcpError", "MethodNotFound")
              /\ preq' = [preq EXCEPT ![s] = NoReq]
         ELSE /\ ppc' = [ppc EXCEPT ![s] = "creating"]
              /\ preq' = [preq EXCEPT ![s] = SchemaParsed(pcall[s])]
              /\ UNCHANGED << preply, perror >>
  /\ UNCHANGED << pollVars, genVars, apiKeySet, lastAnswer, validations, settled, promise, selection,
                  resolveCalls, rejectCalls, unsubCalls, timer, chan, events,
                  pbrowser, closed, exiting, exited >>

\* validateApiKey returns (a failed request is caught and reported as not
\* valid); then the tool dispatch, the schema parse and the submission of
\* createSession
ValidateResponse(s, v) ==
  /\ ~exited
  /\ ppc[s] = "validating"
  /\ authResult' = [authResult EXCEPT ![s] = IF v = "valid" THEN "valid" ELSE "invalid"]
  /\ pcall' = [pcall EXCEPT ![s] = NameOnly(pcall[s].name)]
  /\ IF v # "valid"
       THEN /\ PushFinish(s, "mcpError", "InvalidRequest")
            /\ preq' = [preq EXCEPT ![s] = NoReq]
       ELSE IF pcall[s].name # "generate_component"
         THEN /\ PushFinish(s, "mcpError", "MethodNotFound")
              /\ preq' = [preq EXCEPT ![s] = NoReq]
         ELSE IF ~SchemaAccepts(pcall[s])
           THEN /\ PushFinish(s, "exception", SchemaError(pcall[s]))
                /\ preq' = [preq EXCEPT ![s] = NoReq]
           ELSE /\ ppc' = [ppc EXCEPT ![s] = "creating"]
                /\ preq' = [preq EXCEPT ![s] = SchemaParsed(pcall[s])]
                /\ UNCHANGED << preply, perror >>
  /\ UNCHANGED << pollVars, genVars, apiKeySet, lastAnswer, validations, settled, promise, selection,
                  resolveCalls, rejectCalls, unsubCalls, timer, chan, events,
                  pbrowser, closed, exiting, exited >>

\* mutation of GetSession: every failed fetch is reported as a missing session
GetSessionNullOnError(r) == IF r = "200" THEN "session" ELSE "null"

\* getSession: the mapped session for 200, null for 404, a thrown Error for
\* every other answer
GetSession(r) ==
  IF r = "200" THEN "session"
  ELSE IF r = "404" THEN "null"
  ELSE "throw"

\* the Error createSession throws: the submission was not answered 201,
\* getSession returned null, or getSession threw
CreateSessionError(req, got) ==
  IF req = "create" THEN "Error: Failed to create session"
  ELSE IF got = "null" THEN "Error: Failed to retrieve created session"
  ELSE "Error: Failed to get session"

\* the answer to POST /api/gallery/generate: 201 goes on to getSession
CreateResponse(s, r) ==
  /\ ~exited
  /\ ppc[s] = "creating"
  /\ lastAnswer' = [lastAnswer EXCEPT ![s] = [req |-> "create", status |-> r]]
  /\ IF r = "201"
       THEN /\ ppc' = [ppc EXCEPT ![s] = "fetching"]
            /\ preq' = [preq EXCEPT ![s] =
                          [kind |-> "getSession", framework |-> Absent, styling |-> Absent, auth |-> FALSE]]
            /\ UNCHANGED << preply, perror >>
       ELSE /\ PushFinish(s, "exception", CreateSessionError("create", "none"))
            /\ preq' = [preq EXCEPT ![s] = NoReq]
  /\ UNCHANGED << pollVars, genVars, apiKeySet, authResult, validations, pcall, settled,
                  promise, selection, resolveCalls, rejectCalls, unsubCalls,
                  timer, chan, events, pbrowser, closed, exiting, exited >>

\* waitForSupabaseSelection up to its return: the channel is created, the
\* handler registered, subscribe() called and the timer armed
StartWait(s) ==
  /\ settled' = [settled EXCEPT ![s] = FALSE]
  /\ promise' = [promise EXCEPT ![s] = "pending"]
  /\ chan' = [chan EXCEPT ![s] = "joining"]
  /\ timer' = [timer EXCEPT ![s] = "pending"]

\* mutation of GetSessionResponse: the browser launch begins before the wait
\* is set up
GetSessionResponseNoWait(s, r) ==
  /\ ~exited
  /\ ppc[s] = "fetching"
  /\ preq' = [preq EXCEPT ![s] = NoReq]
  /\ lastAnswer' = [lastAnswer EXCEPT ![s] = [req |-> "getSession", status |-> r]]
  /\ IF GetSession(r) = "session"
       THEN /\ ppc' = [ppc EXCEPT ![s] = "opening"]
            /\ pbrowser' = [pbrowser EXCEPT ![s] = "launching"]
            /\ UNCHANGED << preply, perror >>
       ELSE /\ PushFinish(s, "exception", CreateSessionError("getSession", GetSession(r)))
            /\ UNCHANGED pbrowser
  /\ UNCHANGED << pollVars, genVars, apiKeySet, authResult, validations, pcall, selection,
                  settled, promise, chan, timer, resolveCalls, rejectCalls,
                  unsubCalls, events, closed, exiting, exited >>

\* the answer to getSession inside createSession; a session starts the wait
\* and then the browser launch
GetSessionResponse(s, r) ==
  /\ ~exited
  /\ ppc[s] = "fetching"
  /\ preq' = [preq EXCEPT ![s] = NoReq]
  /\ lastAnswer' = [lastAnswer EXCEPT ![s] = [req |-> "getSession", status |-> r]]
  /\ IF GetSession(r) = "session"
       THEN /\ StartWait(s)
            /\ ppc' = [ppc EXCEPT ![s] = "opening"]
            /\ pbrowser' = [pbrowser EXCEPT ![s] = "launching"]
            /\ UNCHANGED << preply, perror >>
       ELSE /\ PushFinish(s, "exception", CreateSessionError("getSession", GetSession(r)))
            /\ UNCHANGED << settled, promise, chan, timer, pbrowser >>
  /\ UNCHANGED << pollVars, genVars, apiKeySet, authResult, validations, pcall, selection,
                  resolveCalls, rejectCalls, unsubCalls, events, closed, exiting, exited >>

\* await execAsync(openCommand) settles; a failure is logged
PushBrowserResult(s, ok) ==
  /\ ~exited
  /\ ppc[s] = "opening"
  /\ ppc' = [ppc EXCEPT ![s] = "awaiting"]
  /\ pbrowser' = [pbrowser EXCEPT ![s] = IF ok THEN "opened" ELSE "failed"]
  /\ UNCHANGED << pollVars, genVars, apiKeySet, lastAnswer, authResult, validations, pcall, preq, settled, promise, selection,
                  resolveCalls, rejectCalls, unsubCalls, timer, chan, events,
                  preply, perror, closed, exiting, exited >>

\* mutation of AwaitDone: the rejection of the wait is not caught
AwaitDoneRethrow(s) ==
  /\ ~exited
  /\ ppc[s] = "awaiting"
  /\ promise[s] \in {"resolved", "rejected"}
  /\ PushFinish(s, IF promise[s] = "resolved" THEN "payload" ELSE "exception",
                    IF promise[s] = "resolved" THEN "none" ELSE "Error")
  /\ UNCHANGED << pollVars, genVars, apiKeySet, lastAnswer, authResult, validations, pcall, preq, settled, promise, selection,
                  resolveCalls, rejectCalls, unsubCalls, timer, chan, events,
                  pbrowser, closed, exiting, exited >>

\* await selectionPromise returns or throws; both end in a returned content
AwaitDone(s) ==
  /\ ~exited
  /\ ppc[s] = "awaiting"
  /\ promise[s] \in {"resolved", "rejected"}
  /\ PushFinish(s, IF promise[s] = "resolved" THEN "payload" ELSE "errorText", "none")
  /\ UNCHANGED << pollVars, genVars, apiKeySet, lastAnswer, authResult, validations, pcall, preq, settled, promise, selection,
                  resolveCalls, rejectCalls, unsubCalls, timer, chan, events,
                  pbrowser, closed, exiting, exited >>

(***************************************************************************)
(* Subscription server: the waiter's callbacks                             *)
(***************************************************************************)
\* the subscribe callback: a no-op whatever the status
SubscribeStatus(s, status) ==
  /\ ~exited
  /\ chan[s] = "joining"
  /\ chan' = [chan EXCEPT ![s] = IF status = "SUBSCRIBED" THEN "joined" ELSE "errored"]
  /\ UNCHANGED << pollVars, genVars, apiKeySet, lastAnswer, authResult, validations, ppc, pcall, preq, settled, promise, selection,
                  resolveCalls, rejectCalls, unsubCalls, timer, events,
                  pbrowser, preply, perror, closed, exiting, exited >>

\* channel.unsubscribe(): the leave is requested
Unsubscribe(s) ==
  /\ unsubCalls' = [unsubCalls EXCEPT ![s] = @ + 1]
  /\ chan' = [chan EXCEPT ![s] = "leaving"]

\* mutation of OnSelected: the handler does not test the settled flag
OnSelectedNoGuard(s, payload) ==
  /\ settled' = [settled EXCEPT ![s] = TRUE]
  /\ resolveCalls' = [resolveCalls EXCEPT ![s] = @ + 1]
  /\ promise' = [promise EXCEPT ![s] = IF @ = "pending" THEN "resolved" ELSE @]
  /\ selection' = [selection EXCEPT ![s] = IF promise[s] = "pending" THEN payload ELSE @]
  /\ Unsubscribe(s)

\* the 'component_selected' handler
OnSelected(s, payload) ==
  IF settled[s]
    THEN UNCHANGED << settled, promise, selection, resolveCalls, unsubCalls, chan >>
    ELSE /\ settled' = [settled EXCEPT ![s] = TRUE]
         /\ resolveCalls' = [resolveCalls EXCEPT ![s] = @ + 1]
         /\ promise' = [promise EXCEPT ![s] = IF @ = "pending" THEN "resolved" ELSE @]
         /\ selection' = [selection EXCEPT ![s] = IF promise[s] = "pending" THEN payload ELSE @]
         /\ Unsubscribe(s)

\* a broadcast reaches the channel: while it is joined, or while the leave
\* is not yet acknowledged
SelectionEvent(s, payload) ==
  /\ ~exited
  /\ chan[s] \in {"joined", "leaving"}
  /\ events[s] < MaxEvents
  /\ events' = [events EXCEPT ![s] = @ + 1]
  /\ OnSelected(s, payload)
  /\ UNCHANGED << pollVars, genVars, apiKeySet, lastAnswer, authResult, validations, ppc, pcall, preq, rejectCalls, timer,
                  pbrowser, preply, perror, closed, exiting, exited >>

\* mutation of OnTimeout: the timeout path rejects without unsubscribing
OnTimeoutNoUnsub(s) ==
  IF settled[s]
    THEN UNCHANGED << settled, promise, rejectCalls, unsubCalls, chan >>
    ELSE /\ settled' = [settled EXCEPT ![s] = TRUE]
         /\ rejectCalls' = [rejectCalls EXCEPT ![s] = @ + 1]
         /\ promise' = [promise EXCEPT ![s] = IF @ = "pending" THEN "rejected" ELSE @]
         /\ UNCHANGED << unsubCalls, chan >>

\* mutation of OnTimeout: the settled flag is one field shared by all waiters
OnTimeoutShared(s) ==
  IF settled[s]
    THEN UNCHANGED << settled, promise, rejectCalls, unsubCalls, chan >>
    ELSE /\ settled' = [t \in PushSessions |-> TRUE]
         /\ Unsubscribe(s)
         /\ rejectCalls' = [rejectCalls EXCEPT ![s] = @ + 1]
         /\ promise' = [promise EXCEPT ![s] = IF @ = "pending" THEN "rejected" ELSE @]

\* mutation of OnTimeout: the timeout path unsubscribes and never rejects
OnTimeoutNoReject(s) ==
  IF settled[s]
    THEN UNCHANGED << settled, promise, rejectCalls, unsubCalls, chan >>
    ELSE /\ settled' = [settled EXCEPT ![s] = TRUE]
         /\ Unsubscribe(s)
         /\ UNCHANGED << rejectCalls, promise >>

\* the setTimeout callback
OnTimeout(s) ==
  IF settled[s]
    THEN UNCHANGED << settled, promise, rejectCalls, unsubCalls, chan >>
    ELSE /\ settled' = [settled EXCEPT ![s] = TRUE]
         /\ Unsubscribe(s)
         /\ rejectCalls' = [rejectCalls EXCEPT ![s] = @ + 1]
         /\ promise' = [promise EXCEPT ![s] = IF @ = "pending" THEN "rejected" ELSE @]

\* the one-hour timer fires
TimerFire(s) ==
  /\ ~exited
  /\ timer[s] = "pending"
  /\ timer' = [timer EXCEPT ![s] = "fired"]
  /\ OnTimeout(s)
  /\ UNCHANGED << pollVars, genVars, apiKeySet, lastAnswer, authResult, validations, ppc, pcall, preq, selection, resolveCalls,
                  events, pbrowser, preply, perror, closed, exiting, exited >>

\* the realtime server acknowledges the leave
ChannelLeft(s) ==
  /\ ~exited
  /\ chan[s] = "leaving"
  /\ chan' = [chan EXCEPT ![s] = "left"]
  /\ UNCHANGED << pollVars, genVars, apiKeySet, lastAnswer, authResult, validations, ppc, pcall, preq, settled, promise, selection,
                  resolveCalls, rejectCalls, unsubCalls, timer, events,
                  pbrowser, preply, perror, closed, exiting, exited >>

(***************************************************************************)
(* Subscription server: shutdown                                           *)
(***************************************************************************)
\* close(): await this.server.close(); called by the host or by the
\* SIGINT/SIGTERM handlers of main
Close(viaSignal) ==
  /\ ~closed /\ ~exited
  /\ closed' = TRUE
  /\ exiting' = viaSignal
  /\ UNCHANGED << pollVars, genVars, apiKeySet, lastAnswer, authResult, validations, ppc, pcall, preq, settled, promise, selection,
                  resolveCalls, rejectCalls, unsubCalls, timer, chan, events,
                  pbrowser, preply, perror, exited >>

\* process.exit(0) after the awaited close: the process and all it holds end
Exit ==
  /\ closed /\ exiting /\ ~exited
  /\ exited' = TRUE
  /\ timer' = [s \in PushSessions |-> IF timer[s] = "pending" THEN "dead" ELSE timer[s]]
  /\ chan' = [s \in PushSessions |-> IF chan[s] \in {"joining", "joined", "errored", "leaving"}
                                       THEN "dead" ELSE chan[s]]
  /\ UNCHANGED << pollVars, genVars, apiKeySet, lastAnswer, authResult, validations, ppc, pcall, preq, settled, promise, selection,
                  resolveCalls, rejectCalls, unsubCalls, events, pbrowser, preply, perror,
                  closed, exiting >>

PushNext ==
  \/ \E s \in PushSessions :
       \/ \E name \in ToolNames, d \in ArgDescriptions, fw \in ArgFrameworks, st \in ArgStylings :
            PushCallTool(s, name, d, fw, st)
       \/ \E v \in ValidateResponses : ValidateResponse(s, v)
       \/ \E r \in CreateResponses : CreateResponse(s, r)
       \/ \E r \in GetSessionResponses : GetSessionResponse(s, r)
       \/ \E ok \in BOOLEAN : PushBrowserResult(s, ok)
       \/ AwaitDone(s)
       \/ \E status \in {"SUBSCRIBED", "CHANNEL_ERROR"} : SubscribeStatus(s, status)
       \/ \E p \in Payloads : SelectionEvent(s, p)
       \/ TimerFire(s)
       \/ ChannelLeft(s)
  \/ \E viaSignal \in BOOLEAN : Close(viaSignal)
  \/ Exit

(***************************************************************************)
(* Variation generator (src/src/lib/freestyle-orchestrator.ts)             *)
(***************************************************************************)
\* createVariationPrompts: the five prompts, in the order of the array
Prompts == << "modern", "colorful", "corporate", "dark", "animated" >>

\* the positions of the array variations.map runs over
Positions == 1..Len(Prompts)

\* what mockFreestyleGeneration returns: a component with code, or a failure
\* with its fixed error text
GenResults ==
  { [success |-> TRUE, code |-> "mockCode", error |-> Absent],
    [success |-> FALSE, code |-> Absent, error |-> "Mock generation failed for testing purposes"] }

NoGen == [success |-> FALSE, code |-> Absent, error |-> Absent]
NoUpdate == [status |-> "none", code |-> Absent, error |-> Absent]

\* a || b of JavaScript on strings: b when a is undefined or empty
OrElse(a, b) == IF a = Absent \/ a = "" THEN b ELSE a

\* mutation of UpdateBody: the status is always 'completed'
UpdateBodyAlwaysCompleted(code, error) ==
  [status |-> "completed", code |-> code, error |-> error]

\* updateSandboxResult: status: component.error ? 'failed' : 'completed'
UpdateBody(code, error) ==
  [status |-> IF error # Absent /\ error # "" THEN "failed" ELSE "completed",
   code |-> code,
   error |-> error]

GenInit ==
  /\ gpc = "idle"
  /\ vpc = [k \in Positions |-> "notStarted"]
  /\ sandboxIndex = [k \in Positions |-> -1]
  /\ sandboxResultId = [k \in Positions |-> FALSE]
  /\ genResult = [k \in Positions |-> NoGen]
  /\ lastUpdate = [k \in Positions |-> NoUpdate]
  /\ stored = [k \in Positions |-> NoUpdate]
  /\ log = [k \in Positions |-> << >>]

\* generateVariations up to its await: variations.map calls
\* generateSingleVariation for every prompt with its index, and each call
\* runs up to its first await, the createSandboxResult request
GenerateVariations ==
  /\ gpc = "idle"
  /\ gpc' = "running"
  /\ vpc' = [k \in Positions |-> "creating"]
  /\ sandboxIndex' = [k \in Positions |-> k - 1]
  /\ log' = [k \in Positions |-> << "create" >>]
  /\ UNCHANGED << sandboxResultId, genResult, lastUpdate, stored >>
  /\ UNCHANGED << pollVars, pushVars >>

\* createSandboxResult answers: the id is kept and the 'started' broadcast
\* sent; a failure goes to the catch, which does nothing without an id
CreateSandboxResponse(k, ok) ==
  /\ vpc[k] = "creating"
  /\ IF ok
       THEN /\ sandboxResultId' = [sandboxResultId EXCEPT ![k] = TRUE]
            /\ log' = [log EXCEPT ![k] = Append(@, "started")]
            /\ vpc' = [vpc EXCEPT ![k] = "startBroadcast"]
       ELSE /\ vpc' = [vpc EXCEPT ![k] = "settled"]
            /\ UNCHANGED << sandboxResultId, log >>
  /\ UNCHANGED << gpc, sandboxIndex, genResult, lastUpdate, stored >>
  /\ UNCHANGED << pollVars, pushVars >>

\* broadcastSandboxStarted returns (it catches its own errors); the mock
\* generation starts
StartedBroadcastDone(k, ok) ==
  /\ vpc[k] = "startBroadcast"
  /\ vpc' = [vpc EXCEPT ![k] = "generating"]
  /\ UNCHANGED << gpc, sandboxIndex, sandboxResultId, genResult, lastUpdate, stored, log >>
  /\ UNCHANGED << pollVars, pushVars >>

\* mockFreestyleGeneration returns: the update of the sandbox result is sent,
\* with the component or with the error
GenerationDone(k, res) ==
  /\ vpc[k] = "generating"
  /\ genResult' = [genResult EXCEPT ![k] = res]
  /\ lastUpdate' = [lastUpdate EXCEPT ![k] =
                      IF res.success /\ res.code # Absent
                        THEN UpdateBody(res.code, Absent)
                        ELSE UpdateBody("", OrElse(res.error, "Unknown generation error"))]
  /\ log' = [log EXCEPT ![k] = Append(@, "update")]
  /\ vpc' = [vpc EXCEPT ![k] = "updating"]
  /\ UNCHANGED << gpc, sandboxIndex, sandboxResultId, stored >>
  /\ UNCHANGED << pollVars, pushVars >>

\* updateSandboxResult answers: the terminal broadcast of the branch is sent;
\* a failure is thrown to the catch, which sends the update with the error
UpdateResponse(k, ok) ==
  /\ vpc[k] = "updating"
  /\ IF ok
       THEN /\ stored' = [stored EXCEPT ![k] = lastUpdate[k]]
            /\ log' = [log EXCEPT ![k] =
                         Append(@, IF genResult[k].success THEN "completed" ELSE "failed")]
            /\ vpc' = [vpc EXCEPT ![k] = "broadcasting"]
            /\ UNCHANGED << genResult, lastUpdate >>
       ELSE /\ genResult' = [genResult EXCEPT ![k] = NoGen]
            /\ lastUpdate' = [lastUpdate EXCEPT ![k] =
                                UpdateBody("", OrElse("Failed to update sandbox result",
                                                      "Unknown error during generation"))]
            /\ log' = [log EXCEPT ![k] = Append(@, "update")]
            /\ vpc' = [vpc EXCEPT ![k] = "catchUpdating"]
            /\ UNCHANGED stored
  /\ UNCHANGED << gpc, sandboxIndex, sandboxResultId >>
  /\ UNCHANGED << pollVars, pushVars >>

\* mutation of TerminalBroadcastDone: a failed broadcast is thrown to the
\* catch, which sends the update with the error
TerminalBroadcastDoneThrows(k, ok) ==
  /\ vpc[k] = "broadcasting"
  /\ IF ok
       THEN /\ vpc' = [vpc EXCEPT ![k] = "settled"]
            /\ UNCHANGED << genResult, lastUpdate, log >>
       ELSE /\ genResult' = [genResult EXCEPT ![k] = NoGen]
            /\ lastUpdate' = [lastUpdate EXCEPT ![k] =
                                UpdateBody("", "Failed to broadcast")]
            /\ log' = [log EXCEPT ![k] = Append(@, "update")]
            /\ vpc' = [vpc EXCEPT ![k] = "catchUpdating"]
  /\ UNCHANGED << gpc, sandboxIndex, sandboxResultId, stored >>
  /\ UNCHANGED << pollVars, pushVars >>

\* the terminal broadcast returns (it catches its own errors): the variation
\* has settled
TerminalBroadcastDone(k, ok) ==
  /\ vpc[k] = "broadcasting"
  /\ vpc' = [vpc EXCEPT ![k] = "settled"]
  /\ UNCHANGED << gpc, sandboxIndex, sandboxResultId, genResult, lastUpdate, stored, log >>
  /\ UNCHANGED << pollVars, pushVars >>

\* the update sent by the catch answers: the 'failed' broadcast is sent; a
\* failure is caught by the inner catch and only logged
CatchUpdateResponse(k, ok) ==
  /\ vpc[k] = "catchUpdating"
  /\ IF ok
       THEN /\ stored' = [stored EXCEPT ![k] = lastUpdate[k]]
            /\ log' = [log EXCEPT ![k] = Append(@, "failed")]
            /\ vpc' = [vpc EXCEPT ![k] = "catchBroadcasting"]
       ELSE /\ vpc' = [vpc EXCEPT ![k] = "settled"]
            /\ UNCHANGED << stored, log >>
  /\ UNCHANGED << gpc, sandboxIndex, sandboxResultId, genResult, lastUpdate >>
  /\ UNCHANGED << pollVars, pushVars >>

\* the 'failed' broadcast of the catch returns: the variation has settled
CatchBroadcastDone(k, ok) ==
  /\ vpc[k] = "catchBroadcasting"
  /\ vpc' = [vpc EXCEPT ![k] = "settled"]
  /\ UNCHANGED << gpc, sandboxIndex, sandboxResultId, genResult, lastUpdate, stored, log >>
  /\ UNCHANGED << pollVars, pushVars >>

\* mutation of AllSettled: generateVariations returns when the first
\* variation has settled
AllSettledAny ==
  /\ gpc = "running"
  /\ \E k \in Positions : vpc[k] = "settled"
  /\ gpc' = "returned"
  /\ UNCHANGED << vpc, sandboxIndex, sandboxResultId, genResult, lastUpdate, stored, log >>
  /\ UNCHANGED << pollVars, pushVars >>

\* await Promise.allSettled(promises) resumes: generateVariations returns
AllSettled ==
  /\ gpc = "running"
  /\ \A k \in Positions : vpc[k] = "settled"
  /\ gpc' = "returned"
  /\ UNCHANGED << vpc, sandboxIndex, sandboxResultId, genResult, lastUpdate, stored, log >>
  /\ UNCHANGED << pollVars, pushVars >>

GenNext ==
  \/ GenerateVariations
  \/ \E k \in Positions :
       \/ \E ok \in BOOLEAN : CreateSandboxResponse(k, ok)
       \/ \E ok \in BOOLEAN : StartedBroadcastDone(k, ok)
       \/ \E res \in GenResults : GenerationDone(k, res)
       \/ \E ok \in BOOLEAN : UpdateResponse(k, ok)
       \/ \E ok \in BOOLEAN : TerminalBroadcastDone(k, ok)
       \/ \E ok \in BOOLEAN : CatchUpdateResponse(k, ok)
       \/ \E ok \in BOOLEAN : CatchBroadcastDone(k, ok)
  \/ AllSettled

(***************************************************************************)
(* Specifications                                                          *)
(***************************************************************************)
\* the polling server
Init == PollInit /\ PushInit /\ GenInit

Spec == Init /\ [][PollNext]_vars

\* the subscription server
InitPush == Init /\ variant = "index"

SpecPush == InitPush /\ [][PushNext]_vars

\* the subscription server with its timers: a timer that is armed fires
\* unless the process ends first
SpecPushFair ==
  /\ InitPush
  /\ [][PushNext]_vars
  /\ \A s \in PushSessions : WF_vars(TimerFire(s))

\* the variation generator
InitGen == Init /\ variant = "index" /\ apiKeySet

SpecGen == InitGen /\ [][GenNext]_vars

(***************************************************************************)
(* Claims                                                                  *)
(***************************************************************************)
\* the channel still receives: the leave has not been requested
ChannelOpen(s) == chan[s] \in {"joining", "joined", "errored"}

\* C1: each push waiter settles at most once. resolve() and reject() are
\* called at most once in total, and once the waiter has settled no later
\* 'component_selected' event or timer firing changes the promise, the
\* selection it carries, or the number of resolve/reject/unsubscribe calls.
C1_SettlesAtMostOnce ==
  /\ [](\A s \in PushSessions : resolveCalls[s] + rejectCalls[s] <= 1)
  /\ [][\A s \in PushSessions :
          settled[s] =>
            /\ promise'[s] = promise[s]
            /\ selection'[s] = selection[s]
            /\ resolveCalls'[s] = resolveCalls[s]
            /\ rejectCalls'[s] = rejectCalls[s]
            /\ unsubCalls'[s] = unsubCalls[s]]_vars

\* C1 witness: a waiter resolved by an event has then received a duplicate
\* event and its timer has fired, and another has been rejected by its timer
\* and then received an event.
C1_Witness ==
  \E s, t \in PushSessions :
    /\ promise[s] = "resolved" /\ events[s] = 2 /\ timer[s] = "fired"
    /\ promise[t] = "rejected" /\ events[t] >= 1

\* the claim's own reading of a poll response that reports a usable selection
C2_Qualifies(resp) ==
  /\ resp.kind = "ok"
  /\ resp.status = "completed"
  /\ resp.sel # Absent
  /\ \E i \in 1..Len(Variations) : Variations[i].id = resp.sel /\ Variations[i].code # ""

C2_CodeOf(resp) ==
  Variations[CHOOSE i \in 1..Len(Variations) : Variations[i].id = resp.sel].code

\* C2: the polling waiter resolves on the first poll whose response has
\* status 'completed', a selectedVariationId and a variation with that id and
\* non-empty code: at that poll the wait ends with that variation's code, and
\* after it no further interval is slept and no further fetch is issued.
C2_ResolvesOnFirstReadyPoll ==
  /\ [](\A s \in PollSessions :
          C2_Qualifies(lastResp[s]) =>
            /\ pc[s] = "done"
            /\ outcome[s] = "Selected"
            /\ reply[s] = "payload"
            /\ result[s].code = C2_CodeOf(lastResp[s]))
  /\ [][\A s \in PollSessions :
          outcome[s] = "Selected" =>
            /\ fetches'[s] = fetches[s]
            /\ elapsed'[s] = elapsed[s]
            /\ result'[s] = result[s]]_vars

\* C2 witness: [pending, pending, completed + selected id] resolves on the
\* third fetch, after two intervals.
C2_Witness ==
  \E s \in PollSessions :
    /\ outcome[s] = "Selected"
    /\ fetches[s] = 3
    /\ errs[s] = 0
    /\ elapsed[s] = 2 * pollInterval
    /\ result[s].code = "code7"

\* C3 (as claimed): when no status response ever reported a terminal session,
\* a wait that has ended has ended with Timeout, and exactly when the whole
\* bound maxAttempts * pollInterval had elapsed.
C3_TimeoutExactlyAtBound ==
  \A s \in PollSessions :
    (pc[s] = "done" /\ fetches[s] > 0 /\ ~sawTerminal[s]) =>
      /\ outcome[s] = "Timeout"
      /\ elapsed[s] = maxAttempts * pollInterval

\* C4 (as claimed): a status response reporting the session 'expired' with no
\* selection ends the wait at that poll with SessionExpired.
C4_ExpiredFailsFast ==
  \A s \in PollSessions :
    (lastResp[s].kind = "ok" /\ lastResp[s].status = "expired" /\ lastResp[s].sel = Absent) =>
      /\ pc[s] = "done"
      /\ outcome[s] = "SessionExpired"

\* C5 (as claimed): two consecutive transient transport errors never end the
\* wait, wherever they occur, so that a successful poll after them can still
\* resolve it: the wait fails on a transient poll error only when that error
\* is at least the third in a row.
C5_TwoErrorsTolerated ==
  \A s \in PollSessions :
    (outcome[s] = "PollFailed" /\ lastResp[s].http \in {0, 500}) => consecErrs[s] > 2

\* C6 (as claimed): a single failed status poll never makes the wait fail:
\* a wait that failed on a poll error has seen at least two failed polls.
C6_SingleErrorNeverFatal ==
  \A s \in PollSessions :
    outcome[s] = "PollFailed" => errs[s] >= 2

\* C7: on both exit paths of the push waiter the channel is unsubscribed:
\* in every state where the wait has settled, unsubscribe has been requested
\* exactly once and the channel is no longer open; before, it was not requested.
C7_UnsubscribedExactlyOnce ==
  \A s \in PushSessions :
    /\ settled[s] => (unsubCalls[s] = 1 /\ ~ChannelOpen(s))
    /\ ~settled[s] => unsubCalls[s] = 0

\* C7 witness: one wait resolved by an event and one rejected by its timer,
\* each with its one unsubscribe.
C7_Witness ==
  \E s, t \in PushSessions :
    /\ promise[s] = "resolved" /\ unsubCalls[s] = 1
    /\ promise[t] = "rejected" /\ unsubCalls[t] = 1

\* C8 (as claimed): once the outcome of a push wait is known, no subscription
\* is open and no timeout timer is pending for it.
C8_NoResourceAfterSettle ==
  \A s \in PushSessions :
    settled[s] => (~ChannelOpen(s) /\ timer[s] # "pending")

\* C9 (as claimed): after the server was shut down, no wait has a pending
\* timer or an open subscription.
C9_ShutdownReleases ==
  closed => \A s \in PushSessions : (~ChannelOpen(s) /\ timer[s] # "pending")

\* C10 (as claimed): every generation submission sent to the remote service
\* carries a framework and a styling of the fixed enumerations.
C10_OnlyEnumValuesForwarded ==
  \A s \in PollSessions :
    msg[s] # NoMsg =>
      (msg[s].framework \in FrameworkEnum /\ msg[s].styling \in StylingEnum)

\* C11: when the caller omits framework and/or styling the submission carries
\* 'react' and/or 'tailwind'; a value the caller supplies within the
\* enumerations is forwarded unchanged.
C11_DefaultsApplied ==
  \A s \in PollSessions :
    pc[s] = "submitting" =>
      /\ args[s].framework = Absent => msg[s].framework = "react"
      /\ args[s].styling = Absent => msg[s].styling = "tailwind"
      /\ args[s].framework \in FrameworkEnum => msg[s].framework = args[s].framework
      /\ args[s].styling \in StylingEnum => msg[s].styling = args[s].styling

\* C11 witness: a submission in flight for a call that omitted the framework
\* and supplied the styling 'css'.
C11_Witness ==
  \E s \in PollSessions :
    /\ pc[s] = "submitting"
    /\ args[s].framework = Absent /\ msg[s].framework = "react"
    /\ args[s].styling = "css" /\ msg[s].styling = "css"

\* C12 (as claimed): a wait that exhausted its budget fails with a Timeout
\* error carrying the session identifier and the elapsed bound, and a failure
\* reported by the service or the transport never yields the Timeout error.
C12_TimeoutCarriesSessionAndBound ==
  \A s \in PollSessions :
    /\ outcome[s] = "Timeout" =>
         /\ thrown[s].kind = "Timeout"
         /\ thrown[s].sessionId = s
         /\ thrown[s].bound # Absent
    /\ outcome[s] \in {"PollFailed", "SubmitFailed"} => thrown[s].kind # "Timeout"

\* C15 (as claimed): a status poll answered with a rejected credential (401)
\* ends the wait at that poll, on whichever attempt.
C15_AuthFailureNotRetried ==
  \A s \in PollSessions :
    (lastResp[s].kind = "fail" /\ lastResp[s].http = 401) =>
      (pc[s] = "done" /\ outcome[s] = "PollFailed")

\* C16 (as claimed): for every request whose session was created, the content
\* returned to the caller, on selection and on wait failure, contains the
\* gallery URL.
C16_ReplyCarriesGalleryUrl ==
  \A s \in PollSessions :
    (pc[s] = "done" /\ outcome[s] \in {"Selected", "Timeout", "PollFailed"}) => replyUrl[s]

\* C19: there is no retry of the generation: one invocation sends at most one
\* generation submission, whatever errors occur while polling.
C19_AtMostOneSubmission ==
  \A s \in PollSessions : submissions[s] <= 1

\* C19 witness: a wait that tolerated poll errors and then failed on one, with
\* its single submission.
C19_Witness ==
  \E s \in PollSessions :
    /\ outcome[s] = "PollFailed"
    /\ errs[s] >= 3
    /\ submissions[s] = 1

\* C13 (as claimed): every request in flight to the remote service carries the
\* API key: the key validation, the generation submission, and the session
\* fetch issued inside createSession.
C13_EveryCallCarriesCredential ==
  \A s \in PushSessions : preq[s].kind # "none" => preq[s].auth

\* C14 (as claimed): with ADORABLE_API_KEY unset the server never accepts a
\* tool call: no invocation is ever started or answered.
C14_MissingKeyFatalAtStartup ==
  ~apiKeySet => \A s \in PushSessions : ppc[s] = "idle"

\* C14 (amended): with ADORABLE_API_KEY unset the subscription server still
\* accepts tool calls, and every one of them ends at once with an McpError
\* thrown to the protocol layer: no request to the remote service is ever in
\* flight, no wait is started and no browser is launched.
C14_MissingKeyNoRemoteCall ==
  ~apiKeySet =>
    \A s \in PushSessions :
      /\ preq[s].kind = "none"
      /\ promise[s] = "none"
      /\ pbrowser[s] = "notTried"
      /\ ppc[s] \in {"idle", "done"}
      /\ ppc[s] = "done" => preply[s] = "mcpError"

\* C14 witness: the key is unset and a generate_component call has been
\* answered with the McpError.
C14_Witness ==
  /\ ~apiKeySet
  /\ \E s \in PushSessions :
       /\ ppc[s] = "done"
       /\ pcall[s].name = "generate_component"
       /\ preply[s] = "mcpError"

\* C17 (as claimed): every generate_component invocation that ends returns a
\* content to the caller, the selection payload or an error text; none ends
\* with an error thrown to the protocol layer.
C17_AlwaysReturnsContent ==
  \A s \in PushSessions :
    (ppc[s] = "done" /\ pcall[s].name = "generate_component") =>
      preply[s] \in {"payload", "errorText"}

\* C17 (amended): a generate_component invocation of the subscription server
\* returns a content exactly when its wait was started: the payload when the
\* wait resolved, an error text when it was rejected. An invocation that
\* failed before (key, validation of the arguments, session creation) ends
\* with an error thrown to the protocol layer.
C17_WaitFailuresReturned ==
  \A s \in PushSessions :
    (ppc[s] = "done" /\ pcall[s].name = "generate_component") =>
      /\ promise[s] = "resolved" => preply[s] = "payload"
      /\ promise[s] = "rejected" => preply[s] = "errorText"
      /\ promise[s] = "none" => preply[s] \in {"mcpError", "exception"}
      /\ promise[s] # "pending"

\* C17 witness: one invocation returned the error text of a wait that timed
\* out, and another ended with the error of a failed session creation thrown.
C17_Witness ==
  \E s, t \in PushSessions :
    /\ ppc[s] = "done" /\ pcall[s].name = "generate_component"
    /\ promise[s] = "rejected" /\ preply[s] = "errorText"
    /\ ppc[t] = "done" /\ pcall[t].name = "generate_component"
    /\ promise[t] = "none" /\ preply[t] = "exception"

C20_WaitEventuallySettles ==
  /\ \A s \in PushSessions :
       (promise[s] = "pending") ~> (promise[s] # "pending" \/ timer[s] = "dead")
  /\ [](\A s \in PushSessions :
          /\ promise[s] = "rejected" =>
                (timer[s] = "fired" /\ rejectCalls[s] = 1 /\ selection[s] = NoPayload)
          /\ promise[s] = "resolved" => (events[s] >= 1 /\ selection[s] \in Payloads))
  /\ [][\A s \in PushSessions :
          promise[s] = "pending" =>
            /\ (timer[s] = "pending" /\ timer'[s] = "fired") => promise'[s] = "rejected"
            /\ events'[s] # events[s] => promise'[s] = "resolved"
            /\ promise'[s] = "rejected" => timer'[s] # timer[s]]_vars

\* C20 witness: a wait that received no event was rejected by its timer, and
\* a wait whose event arrived first was resolved and its timer fired later.
C20_Witness ==
  \E s, t \in PushSessions :
    /\ promise[s] = "rejected" /\ events[s] = 0 /\ chan[s] = "left"
    /\ promise[t] = "resolved" /\ timer[t] = "fired"

\* C21 (as claimed): every selection the waiter returns has a variationIndex
\* in the range 0..4, whatever the status response contained.
C21_IndexInRange ==
  \A s \in PollSessions :
    outcome[s] = "Selected" => result[s].variationIndex \in 0..4

\* C22: the tool list names generate_component and nothing else, and a call
\* naming another tool ends with an error: for such a call no request for
\* session creation or session fetch is ever in flight, no wait is started
\* and no browser is launched.
C22_OnlyGenerateComponent ==
  /\ ToolList = {"generate_component"}
  /\ \A s \in PushSessions :
       (ppc[s] # "idle" /\ pcall[s].name # "generate_component") =>
         /\ preq[s].kind \notin {"create", "getSession"}
         /\ promise[s] = "none" /\ chan[s] = "none" /\ pbrowser[s] = "notTried"
         /\ ppc[s] \in {"validating", "done"}
         /\ ppc[s] = "done" => (preply[s] = "mcpError" /\ perror[s] # "none")

\* C22 witness: a call of select_component, made with a key that the service
\* reported valid, has ended with MethodNotFound.
C22_Witness ==
  \E s \in PushSessions :
    /\ ppc[s] = "done"
    /\ pcall[s].name = "select_component"
    /\ authResult[s] = "valid"
    /\ perror[s] = "MethodNotFound"

\* C23: a status fetch that fails on an attempt of index 0..5 is tolerated:
\* the waiter is then at the next attempt, still polling. A status fetch that
\* fails on an attempt of index above 5 ends the wait in that step with the
\* poll-failure error, which is not the Timeout error.
C23_GraceWindow ==
  [][\A s \in PollSessions :
       (fetches'[s] = fetches[s] + 1 /\ lastResp'[s].kind = "fail") =>
         IF attempt[s] <= 5
           THEN /\ pc'[s] = "polling"
                /\ attempt'[s] = attempt[s] + 1
                /\ outcome'[s] = "none"
           ELSE /\ pc'[s] = "done"
                /\ outcome'[s] = "PollFailed"
                /\ reply'[s] = "errorText"
                /\ thrown'[s].kind \notin {"none", "Timeout"}]_vars

\* C23 witness: the fetches of attempts 5 and 6 failed: the first was
\* tolerated, the second ended the wait.
C23_Witness ==
  \E s \in PollSessions :
    /\ outcome[s] = "PollFailed"
    /\ attempt[s] = 6
    /\ fetches[s] = 7
    /\ errs[s] = 2 /\ consecErrs[s] = 2

\* C24 (as claimed): between any two consecutive status fetches of one wait a
\* full poll interval elapses: a wait that has issued n fetches has slept at
\* least n - 1 intervals.
C24_IntervalBetweenFetches ==
  \A s \in PollSessions :
    fetches[s] >= 1 => elapsed[s] >= (fetches[s] - 1) * pollInterval

\* C25: one wait issues at most 60 status fetches, failed ones included: each
\* fetch consumes one attempt of the loop, and a wait that has returned or
\* thrown issues no further fetch.
C25_AttemptCeiling ==
  /\ [](\A s \in PollSessions :
          /\ fetches[s] <= 60
          /\ fetches[s] <= attempt[s] + 1)
  /\ [][\A s \in PollSessions :
          pc[s] = "done" => fetches'[s] = fetches[s]]_vars

\* C25 witness: a wait timed out after its 60 fetches, of which some failed
\* within the grace window.
C25_Witness ==
  \E s \in PollSessions :
    /\ outcome[s] = "Timeout"
    /\ fetches[s] = 60
    /\ errs[s] >= 2

\* C26: a result returned by the polling waiter has a non-empty code, which
\* is the code of the variation whose id is the selectedVariationId of the
\* response just fetched, and that variation's variationIndex. A response of
\* status 'completed' whose selected id matches no variation, or matches one
\* with an empty code, neither resolves nor fails the wait: the waiter goes
\* to sleep for the next attempt.
C26_ResultIsSelectedVariation ==
  \A s \in PollSessions :
    /\ outcome[s] = "Selected" =>
         /\ lastResp[s].kind = "ok"
         /\ result[s].code # ""
         /\ \E i \in 1..Len(Variations) :
              /\ Variations[i].id = lastResp[s].sel
              /\ result[s].code = Variations[i].code
              /\ result[s].variationIndex = Variations[i].variationIndex
    /\ ( /\ lastResp[s].kind = "ok"
         /\ lastResp[s].status = "completed"
         /\ lastResp[s].sel # Absent
         /\ \A i \in 1..Len(Variations) :
              Variations[i].id = lastResp[s].sel => Variations[i].code = "" ) =>
         (pc[s] = "sleeping" /\ outcome[s] = "none")

\* C26 witness: after earlier fetches the response named variation v7, and
\* the waiter returned its code and its index.
C26_Witness ==
  \E s \in PollSessions :
    /\ outcome[s] = "Selected"
    /\ fetches[s] >= 2
    /\ lastResp[s].sel = "v7"
    /\ result[s] = [code |-> "code7", variationIndex |-> 7]

\* C27: in the subscription server authentication precedes all work. A
\* request for session creation or session fetch is in flight, or a wait has
\* been started, only for a call whose key validateApiKey reported valid;
\* a call made without a key, or whose key was not reported valid, ends with
\* an InvalidRequest McpError and with no wait and no channel; and
\* validateApiKey is called at most once per call.
C27_AuthenticationFirst ==
  \A s \in PushSessions :
    /\ validations[s] <= 1
    /\ (preq[s].kind \in {"create", "getSession"} \/ promise[s] # "none" \/ chan[s] # "none") =>
         (authResult[s] = "valid" /\ validations[s] = 1)
    /\ (ppc[s] = "done" /\ (~apiKeySet \/ authResult[s] = "invalid")) =>
         /\ preply[s] = "mcpError"
         /\ perror[s] = "InvalidRequest"
         /\ promise[s] = "none" /\ chan[s] = "none" /\ pbrowser[s] = "notTried"
    /\ ~apiKeySet => validations[s] = 0

\* C27 witness: one call was refused because its key was reported invalid,
\* while the session creation of another, whose key was reported valid, is
\* in flight.
C27_Witness ==
  \E s, t \in PushSessions :
    /\ ppc[s] = "done" /\ authResult[s] = "invalid" /\ perror[s] = "InvalidRequest"
    /\ preq[t].kind = "create" /\ authResult[t] = "valid" /\ validations[t] = 1

\* C28: in the subscription server the wait exists from before the browser
\* launch: whenever the launch has begun, the promise, the channel and the
\* timer of the wait have been created. An event delivered to a pending wait
\* while the launch is in progress resolves it with its payload, and a call
\* whose wait was resolved returns the payload.
C28_WaitStartedBeforeLaunch ==
  /\ [](\A s \in PushSessions :
          /\ pbrowser[s] # "notTried" =>
               (promise[s] # "none" /\ chan[s] # "none" /\ timer[s] # "none")
          /\ (ppc[s] = "done" /\ promise[s] = "resolved") =>
               (preply[s] = "payload" /\ selection[s] \in Payloads))
  /\ [][\A s \in PushSessions :
          (ppc[s] = "opening" /\ promise[s] = "pending" /\ events'[s] = events[s] + 1) =>
            (promise'[s] = "resolved" /\ selection'[s] \in Payloads)]_vars

\* C28 witness: the browser launch is still in progress and the wait has
\* already been resolved by an event.
C28_Witness ==
  \E s \in PushSessions :
    /\ ppc[s] = "opening" /\ pbrowser[s] = "launching"
    /\ promise[s] = "resolved" /\ events[s] = 1
    /\ selection[s] \in Payloads

\* C29 (as claimed): a subscription failure is not left to the one-hour
\* timer: a wait whose channel reported an error and never joined is failed by
\* the subscribe path, so the timer never fires on a pending wait whose
\* channel is in the errored state.
C29_SubscribeFailureEscalates ==
  [][\A s \in PushSessions :
       (chan[s] = "errored" /\ promise[s] = "pending") =>
         ~(timer'[s] = "fired" /\ promise'[s] = "rejected")]_vars

\* C30 (as claimed): for a generate_component call without a description no
\* request to the remote service is in flight while the call is served.
C30_NoDescriptionNoRemoteCall ==
  \A s \in PushSessions :
    ( /\ ppc[s] = "validating"
      /\ pcall[s].name = "generate_component"
      /\ pcall[s].description = Absent ) => preq[s].kind = "none"

\* C30 (amended): in the subscription server a generate_component call
\* without a description, once its key validation has returned, ends in that
\* step with an error thrown to the protocol layer, the ZodError of the schema
\* when the key was valid: no session creation or fetch is requested, no wait
\* is started and no browser is launched.
C30_NoDescriptionNoSession ==
  [][\A s \in PushSessions :
       ( /\ ppc[s] = "validating"
         /\ pcall[s].name = "generate_component"
         /\ pcall[s].description = Absent
         /\ ppc'[s] # "validating" ) =>
         /\ ppc'[s] = "done"
         /\ preq'[s].kind = "none"
         /\ preply'[s] \in {"mcpError", "exception"}
         /\ perror'[s] \in {"InvalidRequest", "ZodError: description required"}
         /\ authResult'[s] = "valid" => perror'[s] = "ZodError: description required"
         /\ promise'[s] = "none" /\ chan'[s] = "none" /\ pbrowser'[s] = "notTried"]_vars

\* C30 witness: a call without a description, made with a valid key, has
\* ended with the ZodError after its one key validation.
C30_Witness ==
  \E s \in PushSessions :
    /\ ppc[s] = "done"
    /\ pcall[s].name = "generate_component"
    /\ authResult[s] = "valid" /\ validations[s] = 1
    /\ perror[s] = "ZodError: description required"
    /\ promise[s] = "none"

\* C31: createSession returns a session, and the handler goes on to the wait,
\* only when the submission was answered 201 and the following getSession
\* was answered 200. A submission answered otherwise ends the call with the
\* error of createSession and sends no getSession; getSession answered 404
\* returns null, which createSession reports as 'Failed to retrieve created
\* session'; any other answer makes getSession throw. In all these cases no
\* session is returned: no wait is started.
C31_CreateSessionTwoSteps ==
  \A s \in PushSessions :
    /\ (promise[s] # "none" \/ ppc[s] \in {"opening", "awaiting"}) =>
         lastAnswer[s] = [req |-> "getSession", status |-> "200"]
    /\ preq[s].kind = "getSession" => lastAnswer[s] = [req |-> "create", status |-> "201"]
    /\ (lastAnswer[s].req = "create" /\ lastAnswer[s].status # "201") =>
         /\ ppc[s] = "done" /\ preply[s] = "exception"
         /\ perror[s] = "Error: Failed to create session"
         /\ preq[s].kind = "none" /\ promise[s] = "none"
    /\ (lastAnswer[s].req = "getSession" /\ lastAnswer[s].status = "404") =>
         /\ ppc[s] = "done" /\ preply[s] = "exception"
         /\ perror[s] = "Error: Failed to retrieve created session"
         /\ promise[s] = "none"
    /\ (lastAnswer[s].req = "getSession" /\ lastAnswer[s].status \notin {"200", "404"}) =>
         /\ ppc[s] = "done" /\ preply[s] = "exception"
         /\ perror[s] = "Error: Failed to get session"
         /\ promise[s] = "none"

\* C31 witness: one createSession found no session behind its 201 (404), and
\* another returned a session whose wait is pending.
C31_Witness ==
  \E s, t \in PushSessions :
    /\ lastAnswer[s] = [req |-> "getSession", status |-> "404"]
    /\ ppc[s] = "done"
    /\ lastAnswer[t] = [req |-> "getSession", status |-> "200"]
    /\ promise[t] = "pending"

\* C32: generateVariations starts exactly 5 variation generations, with the
\* indices 0..4, all of them before any one completes, and returns only after
\* all 5 have settled; it never rejects, and while it runs a step of one
\* variation, a failure included, changes nothing of any other variation.
C32_FiveInParallel ==
  /\ [](/\ gpc \in {"idle", "running", "returned"}
        /\ gpc = "idle" => \A k \in DOMAIN vpc : vpc[k] = "notStarted"
        /\ gpc # "idle" =>
             /\ Cardinality({k \in DOMAIN vpc : vpc[k] # "notStarted"}) = 5
             /\ Cardinality(DOMAIN vpc) = 5
             /\ {sandboxIndex[k] : k \in DOMAIN vpc} = 0..4
        /\ (\E k \in DOMAIN vpc : vpc[k] = "settled") =>
             \A j \in DOMAIN vpc : vpc[j] # "notStarted"
        /\ gpc = "returned" => \A k \in DOMAIN vpc : vpc[k] = "settled")
  /\ [][(gpc = "running" /\ gpc' = "running") =>
          \A k \in DOMAIN vpc :
            vpc'[k] # vpc[k] =>
              \A j \in DOMAIN vpc \ {k} :
                /\ vpc'[j] = vpc[j]
                /\ log'[j] = log[j]
                /\ lastUpdate'[j] = lastUpdate[j]
                /\ stored'[j] = stored[j]]_vars

\* C32 witness: generateVariations has returned after five variations with the
\* indices 0..4 settled, of which one failed at the creation of its sandbox
\* result, one failed in generation, one failed in its update and in the
\* update of the catch, and the two others completed.
C32_Witness ==
  /\ gpc = "returned"
  /\ \A k \in 1..5 : vpc[k] = "settled" /\ sandboxIndex[k] = k - 1
  /\ log[1] = << "create" >>
  /\ log[2] = << "create", "started", "update", "failed" >>
  /\ log[3] = << "create", "started", "update", "update" >>
  /\ stored[4].status = "completed"
  /\ stored[5].status = "completed"

\* the claim's own reading of a terminal broadcast
C33_Terminal(e) == e \in {"completed", "failed"}

\* C33: the events of each variation are ordered: the creation of the sandbox
\* result comes first, the 'started' broadcast second, every result update
\* after the 'started' broadcast, and a terminal broadcast only directly
\* after an update and as the last event. At most one terminal broadcast is
\* sent per variation (completed or failed, never both), and a variation
\* whose creation failed has sent no broadcast and no update.
C33_EventOrder ==
  \A k \in DOMAIN log :
    LET l == log[k] IN
      /\ \A i \in 1..Len(l) :
           /\ l[i] = "create" <=> i = 1
           /\ l[i] = "started" <=> i = 2
           /\ l[i] = "update" => i > 2
           /\ C33_Terminal(l[i]) => (i > 3 /\ i = Len(l) /\ l[i - 1] = "update")
      /\ Cardinality({i \in 1..Len(l) : C33_Terminal(l[i])}) <= 1
      /\ ~(\E i, j \in 1..Len(l) : l[i] = "completed" /\ l[j] = "failed")
      /\ (vpc[k] = "settled" /\ ~sandboxResultId[k]) => l = << "create" >>
      /\ (vpc[k] = "settled" /\ sandboxResultId[k]) =>
           (Len(l) >= 4 /\ l[3] = "update")

\* C33 witness: one variation has settled after creation, 'started', update
\* and 'completed'; one after a failed update, the update of the catch and
\* 'failed'; and one after a failed creation with nothing sent.
C33_Witness ==
  \E a, b, c \in DOMAIN log :
    /\ vpc[a] = "settled" /\ vpc[b] = "settled" /\ vpc[c] = "settled"
    /\ log[a] = << "create", "started", "update", "completed" >>
    /\ log[b] = << "create", "started", "update", "update", "failed" >>
    /\ log[c] = << "create" >> /\ ~sandboxResultId[c]

\* C34: the update of a variation's stored result carries the status
\* 'completed' only when generation succeeded, and then carries the
\* generated code; on every failure path (generation reported failure, or an
\* exception after the sandbox result was created) the update carries the
\* status 'failed', empty code and a non-empty error text; the stored result
\* is what an acknowledged update carried; and a 'completed' broadcast is
\* sent only after the 'completed' update succeeded.
C34_StoredResult ==
  \A k \in DOMAIN vpc :
    /\ lastUpdate[k].status \in {"none", "completed", "failed"}
    /\ lastUpdate[k].status = "completed" =>
         /\ genResult[k].success
         /\ lastUpdate[k].code = genResult[k].code
         /\ lastUpdate[k].code \notin {Absent, ""}
    /\ (lastUpdate[k].status # "none" /\ ~genResult[k].success) =>
         /\ lastUpdate[k].status = "failed"
         /\ lastUpdate[k].code = ""
         /\ lastUpdate[k].error \notin {Absent, ""}
    /\ (\E i \in 1..Len(log[k]) : i > 3 /\ log[k][i] = "update") =>
         /\ lastUpdate[k].status = "failed"
         /\ lastUpdate[k].code = ""
         /\ lastUpdate[k].error \notin {Absent, ""}
    /\ stored[k].status # "none" => stored[k] = lastUpdate[k]
    /\ (\E i \in 1..Len(log[k]) : log[k][i] = "completed") =>
         /\ stored[k].status = "completed"
         /\ stored[k].code = "mockCode"
    /\ (\E i \in 1..Len(log[k]) : log[k][i] = "failed") =>
         /\ stored[k].status = "failed"
         /\ stored[k].code = ""
         /\ stored[k].error \notin {Absent, ""}

\* C34 witness: one variation is stored 'completed' with the generated code
\* and its 'completed' broadcast sent, one is stored 'failed' after the
\* generation reported failure, and one is stored 'failed' by the catch
\* after the update of a successful generation failed.
C34_Witness ==
  \E a, b, c \in DOMAIN vpc :
    /\ stored[a] = [status |-> "completed", code |-> "mockCode", error |-> Absent]
    /\ log[a] = << "create", "started", "update", "completed" >>
    /\ stored[b] = [status |-> "failed", code |-> "",
                    error |-> "Mock generation failed for testing purposes"]
    /\ log[b] = << "create", "started", "update", "failed" >>
    /\ stored[c].status = "failed" /\ stored[c].code = ""
    /\ log[c] = << "create", "started", "update", "update", "failed" >>

====
